---- MODULE Spec2Model ----
(***************************************************************************)
(* Max-pump-zone dashboard: the batch ingestion scheduler of App.js (the   *)
(* useEffect that runs one pass per timeframe) and its resilient fetcher   *)
(* fetchWithRetry.                                                         *)
(*                                                                         *)
(* JavaScript runs one task at a time, so every action below is one task   *)
(* together with the microtasks it releases: a response arriving, a timer  *)
(* firing, the user picking a timeframe.  An await is where an action ends.*)
(***************************************************************************)
EXTENDS Integers, Sequences, FiniteSets, TLC

VARIABLES
    signals,      \* useState([]): the cumulative result collection
    loading,      \* useState(true): the pass-in-progress flag
    timeframe,    \* useState('1d')
    lastUpdated,  \* useState(null)
    cur,          \* number of times the effect has run: the current pass
    pass,         \* per effect run, its closure: isMounted, currentIndex, symbols, ...
    \* one call of fetchWithRetry(url, retries, delay)
    retries,      \* parameter retries
    delay,        \* parameter delay (ms)
    i,            \* the loop index
    fpc,          \* where the call is: "fetch", "sleep", "returned", "thrown"
    gets,         \* fetch(url) calls made
    sleeps,       \* the waits started, in order (ms)
    responses,    \* what the exchange answered, in order
    result,       \* what the call returned or threw
    \* one call of calculateEMA(data, period) and of calculateRSI(closes, period)
    closes,       \* the price series
    period,       \* parameter period
    ema,          \* what calculateEMA returned
    rsi,          \* what calculateRSI returned
    \* one call of getRecentRSIDiff(rsi14, lookback) and of getSignal(s)
    rsi14,        \* s.rsi14: the RSI series of the signal data, or undefined
    lookback,     \* parameter lookback
    pumpDump,     \* what getRecentRSIDiff returned
    signal,       \* what getSignal returned
    \* one call of getSessions(tf)
    now,          \* new Date().getTime() (ms since the epoch)
    tfParam,      \* parameter tf
    sessions,     \* what getSessions returned
    \* the previous-session candles of fetchAndAnalyze(symbol, interval)
    candles,      \* the candles of the klines response
    candlesPrev   \* candles.filter(...): the candles of the previous session

svars == <<signals, loading, timeframe, lastUpdated, cur, pass>>
fvars == <<retries, delay, i, fpc, gets, sleeps, responses, result>>
ivars == <<closes, period, ema, rsi>>
cvars == <<rsi14, lookback, pumpDump, signal>>
tvars == <<now, tfParam, sessions, candles, candlesPrev>>
pvars == <<ivars, cvars, tvars>>
vars == <<svars, fvars, pvars>>

-----------------------------------------------------------------------------
(* Bounds of the model *)

\* effect runs explored: the initial load and MaxPasses - 1 timeframe changes
MaxPasses == 2
\* longest instrument list the exchange returns to the first pass
MaxListing == 12
\* longest instrument list the exchange returns to a later pass
MaxRelisting == 1

(* Program constants *)

BATCH_SIZE == 10
\* fetchWithRetry = async (url, retries = 5, delay = 1000)
DEFAULT_RETRIES == 5
DEFAULT_DELAY == 1000

Passes == 1..MaxPasses
Timeframes == {"15m", "4h", "1d"}

Min(a, b) == IF a < b THEN a ELSE b

-----------------------------------------------------------------------------
(* The exchange.  Instruments are numbered; the exchange lists a prefix of  *)
(* them.  What a request for an instrument answers depends on the           *)
(* instrument: some are not USDT pairs, some are delisted (the candle       *)
(* request ends in fetchWithRetry returning null), some have no 24h ticker, *)
(* some hit a network failure that fetchWithRetry re-throws.                *)

IsUSDT(s) == s % 12 # 3
Delisted(s) == s = 2 \/ (s >= 6 /\ s <= 11)
NoTicker(s) == s = 4
FlakyKlines(s) == s = 5
FlakyTicker(s) == s = 12

\* what fetchWithRetry(klines of s) may end in
KlinesOutcomes(s) ==
    IF Delisted(s) THEN {"null"}
    ELSE IF FlakyKlines(s) THEN {"json", "throw"}
    ELSE {"json"}

\* what fetchWithRetry(24h ticker of s) may end in
TickerOutcomes(s) ==
    IF NoTicker(s) THEN {"null"}
    ELSE IF FlakyTicker(s) THEN {"json", "throw"}
    ELSE {"json"}

ListingBound(p) == IF p = 1 THEN MaxListing ELSE MaxRelisting

\* exchangeInfo.symbols of a listing of m instruments
Listing(m) == [s \in 1..m |-> s]

\* what fetchWithRetry(exchangeInfo) may end in for pass p
UniverseOutcomes(p) ==
    {[kind |-> k, symbols |-> <<>>] : k \in {"null", "throw", "malformed"}}
    \cup {[kind |-> "json", symbols |-> Listing(m)] : m \in 0..ListingBound(p)}

-----------------------------------------------------------------------------
(* The closure of one effect run *)

NoPass ==
    [pc |-> "none", isMounted |-> FALSE, interval |-> "1d", currentIndex |-> 0,
     symbols |-> <<>>, members |-> <<>>, batches |-> 0, uniFetches |-> 0,
     started |-> <<>>, returned |-> {}, appends |-> 0, lateFetch |-> FALSE]

\* let isMounted = true; let currentIndex = 0; let symbols = []
NewPass(tf) ==
    [NoPass EXCEPT !.pc = "effect", !.isMounted = TRUE, !.interval = tf]

\* the component state a pass writes
Component(sig, ld, lu) == [signals |-> sig, loading |-> ld, lastUpdated |-> lu]

Here == Component(signals, loading, lastUpdated)

\* one task's writes: closure p of the table P becomes ps, the component becomes c
Commit(P, p, ps, c) ==
    /\ pass' = [P EXCEPT ![p] = ps]
    /\ signals' = c.signals
    /\ loading' = c.loading
    /\ lastUpdated' = c.lastUpdated

\* symbols.slice(currentIndex, currentIndex + BATCH_SIZE)
Slice(ps) ==
    SubSeq(ps.symbols, ps.currentIndex + 1,
           Min(ps.currentIndex + BATCH_SIZE, Len(ps.symbols)))

\* newSignals.filter(Boolean): the analyses of the members that resolved non-null
NewSignals(p, ps) ==
    LET sl == Slice(ps)
        kept == SelectSeq([j \in 1..Len(sl) |-> j],
                          LAMBDA j : ps.members[j] = "analysis")
    IN [k \in 1..Len(kept) |-> [symbol |-> sl[kept[k]], pass |-> p]]

Settled(ps) == \A j \in DOMAIN ps.members : ps.members[j] \in {"analysis", "null"}
Rejected(ps) == \E j \in DOMAIN ps.members : ps.members[j] = "rejected"

\* AfterPromiseAll without its if (isMounted)
AfterPromiseAllUnguarded(P, p, ps, c) ==
    LET idx == ps.currentIndex + BATCH_SIZE
        sig == c.signals \o NewSignals(p, ps)
    IN IF idx < Len(ps.symbols)
       THEN Commit(P, p, [ps EXCEPT !.currentIndex = idx, !.appends = @ + 1, !.pc = "timer"],
                   Component(sig, c.loading, "time"))
       ELSE Commit(P, p, [ps EXCEPT !.currentIndex = idx, !.appends = @ + 1, !.pc = "complete"],
                   Component(sig, FALSE, "time"))

\* AfterPromiseAll with setSignals(newSignals.filter(Boolean)): the batch
\* replaces the collection
AfterPromiseAllReplaces(P, p, ps, c) ==
    IF ps.isMounted
    THEN LET idx == ps.currentIndex + BATCH_SIZE
             sig == NewSignals(p, ps)
         IN IF idx < Len(ps.symbols)
            THEN Commit(P, p, [ps EXCEPT !.currentIndex = idx, !.appends = @ + 1, !.pc = "timer"],
                        Component(sig, c.loading, "time"))
            ELSE Commit(P, p, [ps EXCEPT !.currentIndex = idx, !.appends = @ + 1, !.pc = "complete"],
                        Component(sig, FALSE, "time"))
    ELSE Commit(P, p, [ps EXCEPT !.pc = "stale"], c)

\* AfterPromiseAll with if (currentIndex <= symbols.length)
AfterPromiseAllOffByOne(P, p, ps, c) ==
    IF ps.isMounted
    THEN LET idx == ps.currentIndex + BATCH_SIZE
             sig == c.signals \o NewSignals(p, ps)
         IN IF idx <= Len(ps.symbols)
            THEN Commit(P, p, [ps EXCEPT !.currentIndex = idx, !.appends = @ + 1, !.pc = "timer"],
                        Component(sig, c.loading, "time"))
            ELSE Commit(P, p, [ps EXCEPT !.currentIndex = idx, !.appends = @ + 1, !.pc = "complete"],
                        Component(sig, FALSE, "time"))
    ELSE Commit(P, p, [ps EXCEPT !.pc = "stale"], c)

\* processBatch after await Promise.all resolved
AfterPromiseAll(P, p, ps, c) ==
    IF ps.isMounted
    THEN LET idx == ps.currentIndex + BATCH_SIZE
             sig == c.signals \o NewSignals(p, ps)
         IN IF idx < Len(ps.symbols)
            THEN Commit(P, p, [ps EXCEPT !.currentIndex = idx, !.appends = @ + 1, !.pc = "timer"],
                        Component(sig, c.loading, "time"))
            ELSE Commit(P, p, [ps EXCEPT !.currentIndex = idx, !.appends = @ + 1, !.pc = "complete"],
                        Component(sig, FALSE, "time"))
    ELSE Commit(P, p, [ps EXCEPT !.pc = "stale"], c)

\* processBatch from Promise.all(...map(fetchAndAnalyze)) to its await: every
\* member runs to its first await, the candle request
StartBatch(P, p, ps, c) ==
    LET sl == Slice(ps)
        ps1 == [ps EXCEPT !.members = [j \in 1..Len(sl) |-> "klines"],
                          !.batches = @ + 1,
                          !.started = @ \o sl,
                          !.lateFetch = @ \/ (~ps.isMounted /\ Len(sl) > 0),
                          !.pc = "batch"]
    IN IF Len(sl) = 0
       THEN AfterPromiseAll(P, p, ps1, c)
       ELSE Commit(P, p, ps1, c)

\* processBatch from its first line to its first await
ProcessBatch(P, p, ps, c) ==
    IF ~ps.isMounted
    THEN Commit(P, p, [ps EXCEPT !.pc = "stale"], c)
    ELSE IF Len(ps.symbols) = 0
    THEN Commit(P, p, [ps EXCEPT !.pc = "universe", !.uniFetches = @ + 1], c)
    ELSE StartBatch(P, p, ps, c)

\* AfterMember where processBatch goes on as soon as one member has settled
AfterMemberEager(p, ps) ==
    IF ps.pc # "batch" THEN Commit(pass, p, ps, Here)
    ELSE IF Rejected(ps) THEN Commit(pass, p, [ps EXCEPT !.pc = "rejected"], Here)
    ELSE IF \E j \in DOMAIN ps.members : ps.members[j] \in {"analysis", "null"}
    THEN AfterPromiseAll(pass, p, ps, Here)
    ELSE Commit(pass, p, ps, Here)

\* a member of the batch of p changed state: what processBatch does about it
AfterMember(p, ps) ==
    IF ps.pc # "batch" THEN Commit(pass, p, ps, Here)
    ELSE IF Rejected(ps) THEN Commit(pass, p, [ps EXCEPT !.pc = "rejected"], Here)
    ELSE IF Settled(ps) THEN AfterPromiseAll(pass, p, ps, Here)
    ELSE Commit(pass, p, ps, Here)

-----------------------------------------------------------------------------
(* Actions *)

\* the component mounts and the effect runs for the first time
SchedulerInit ==
    /\ signals = <<>>
    /\ loading = TRUE
    /\ timeframe = "1d"
    /\ lastUpdated = "null"
    /\ cur = 1
    /\ pass = [p \in Passes |->
                 IF p = 1
                 THEN [NewPass("1d") EXCEPT !.pc = "universe", !.uniFetches = 1]
                 ELSE NoPass]

\* no call of fetchWithRetry is followed
FetchIdle ==
    /\ retries = DEFAULT_RETRIES
    /\ delay = DEFAULT_DELAY
    /\ i = 0
    /\ fpc = "idle"
    /\ gets = 0
    /\ sleeps = <<>>
    /\ responses = <<>>
    /\ result = "none"

\* a function that has not been called, and one that returned value
NotCalled == [called |-> FALSE, value |-> <<>>]
Returned(value) == [called |-> TRUE, value |-> value]

\* no call of calculateEMA or calculateRSI is followed
IndicatorIdle ==
    /\ closes = <<>>
    /\ period = 1
    /\ ema = NotCalled
    /\ rsi = NotCalled

\* no call of getRecentRSIDiff or getSignal is followed
SignalIdle ==
    /\ rsi14 = NotCalled
    /\ lookback = 14
    /\ pumpDump = NotCalled
    /\ signal = NotCalled

\* no call of getSessions is followed
SessionIdle ==
    /\ now = 0
    /\ tfParam = "1d"
    /\ sessions = NotCalled
    /\ candles = <<>>
    /\ candlesPrev = NotCalled

Init == SchedulerInit /\ FetchIdle /\ IndicatorIdle /\ SignalIdle /\ SessionIdle

\* onClick: setTimeframe(tf); the effect's cleanup, then the effect again
TimeframeChange(tf) ==
    /\ cur < MaxPasses
    /\ tf # timeframe
    /\ timeframe' = tf
    /\ cur' = cur + 1
    /\ UNCHANGED <<fvars, pvars>>
    /\ ProcessBatch([pass EXCEPT ![cur].isMounted = FALSE], cur + 1, NewPass(tf),
                    Component(<<>>, TRUE, "null"))

\* UniverseReturn without the setLoading(false) of its failure branches
UniverseReturnKeepsLoading(p, r) ==
    /\ pass[p].pc = "universe"
    /\ r \in UniverseOutcomes(p)
    /\ UNCHANGED <<timeframe, cur, fvars, pvars>>
    /\ IF r.kind # "json"
       THEN Commit(pass, p, [pass[p] EXCEPT !.pc = "aborted"], Here)
       ELSE StartBatch(pass, p,
                       [pass[p] EXCEPT !.symbols = SelectSeq(r.symbols, IsUSDT)],
                       Here)

\* fetchWithRetry(exchangeInfo) of pass p ends
UniverseReturn(p, r) ==
    /\ pass[p].pc = "universe"
    /\ r \in UniverseOutcomes(p)
    /\ UNCHANGED <<timeframe, cur, fvars, pvars>>
    /\ IF r.kind # "json"
       THEN Commit(pass, p, [pass[p] EXCEPT !.pc = "aborted"],
                   Component(signals, FALSE, lastUpdated))
       ELSE StartBatch(pass, p,
                       [pass[p] EXCEPT !.symbols = SelectSeq(r.symbols, IsUSDT)],
                       Here)

\* setTimeout(processBatch, INTERVAL_MS) of pass p fires
TimerFires(p) ==
    /\ pass[p].pc = "timer"
    /\ UNCHANGED <<timeframe, cur, fvars, pvars>>
    /\ ProcessBatch(pass, p, pass[p], Here)

\* member j of the batch of pass p: fetchWithRetry(klines) ends
KlinesReturn(p, j, r) ==
    /\ j \in DOMAIN pass[p].members
    /\ pass[p].members[j] = "klines"
    /\ r \in KlinesOutcomes(Slice(pass[p])[j])
    /\ UNCHANGED <<timeframe, cur, fvars, pvars>>
    /\ LET m == CASE r = "null" -> "null"
                  [] r = "throw" -> "rejected"
                  [] OTHER -> "ticker"
       IN AfterMember(p, [pass[p] EXCEPT
                             !.members[j] = m,
                             !.lateFetch = @ \/ (~pass[p].isMounted /\ m = "ticker"),
                             !.returned = @ \cup {<<Slice(pass[p])[j], "klines", r>>}])

\* TickerReturn without if (ticker24h === null) return null
TickerReturnNoNullCheck(p, j, r) ==
    /\ j \in DOMAIN pass[p].members
    /\ pass[p].members[j] = "ticker"
    /\ r \in TickerOutcomes(Slice(pass[p])[j])
    /\ UNCHANGED <<timeframe, cur, fvars, pvars>>
    /\ LET m == CASE r = "throw" -> "rejected"
                  [] OTHER -> "analysis"
       IN AfterMember(p, [pass[p] EXCEPT
                             !.members[j] = m,
                             !.returned = @ \cup {<<Slice(pass[p])[j], "ticker", r>>}])

\* member j of the batch of pass p: fetchWithRetry(ticker) ends
TickerReturn(p, j, r) ==
    /\ j \in DOMAIN pass[p].members
    /\ pass[p].members[j] = "ticker"
    /\ r \in TickerOutcomes(Slice(pass[p])[j])
    /\ UNCHANGED <<timeframe, cur, fvars, pvars>>
    /\ LET m == CASE r = "null" -> "null"
                  [] r = "throw" -> "rejected"
                  [] OTHER -> "analysis"
       IN AfterMember(p, [pass[p] EXCEPT
                             !.members[j] = m,
                             !.returned = @ \cup {<<Slice(pass[p])[j], "ticker", r>>}])

Next ==
    \/ \E tf \in Timeframes : TimeframeChange(tf)
    \/ \E p \in Passes : \E r \in UniverseOutcomes(p) : UniverseReturn(p, r)
    \/ \E p \in Passes : TimerFires(p)
    \/ \E p \in Passes : \E j \in 1..BATCH_SIZE :
          \E r \in {"json", "null", "throw"} : KlinesReturn(p, j, r)
    \/ \E p \in Passes : \E j \in 1..BATCH_SIZE :
          \E r \in {"json", "null", "throw"} : TickerReturn(p, j, r)

\* the scheduler, with timeframe changes
Spec == Init /\ [][Next]_vars

PassNext ==
    \/ \E p \in Passes : \E r \in UniverseOutcomes(p) : UniverseReturn(p, r)
    \/ \E p \in Passes : TimerFires(p)
    \/ \E p \in Passes : \E j \in 1..BATCH_SIZE :
          \E r \in {"json", "null", "throw"} : KlinesReturn(p, j, r)
    \/ \E p \in Passes : \E j \in 1..BATCH_SIZE :
          \E r \in {"json", "null", "throw"} : TickerReturn(p, j, r)

\* one pass that the user never invalidates, in which every request is
\* answered and every timer fires
PassSpec == Init /\ [][PassNext]_vars /\ WF_vars(PassNext)

-----------------------------------------------------------------------------
(* fetchWithRetry(url, retries = 5, delay = 1000)                           *)

\* Retry-After values (seconds) the exchange sends; -1: no such header
RetryAfterValues == {-1, 3}

\* response.json() of a successful response
Payloads == {"payloadA", "payloadB"}

\* the error bodies {code, msg} of the exchange
ErrorBodies ==
    { [code |-> -1003, msg |-> "Too many requests."],
      [code |-> -1121, msg |-> "Invalid symbol."],
      [code |-> -1122, msg |-> "Invalid symbol status."],
      [code |-> -1100, msg |-> "Illegal characters found in parameter."],
      [code |-> -1130, msg |-> "Invalid symbol format."] }

\* what await fetch(url) and the await response.json() after it can give:
\* status 0 is fetch(url) itself rejecting (network failure); json "unparsable"
\* is response.json() rejecting
NoBody == [code |-> 0, msg |-> ""]
Responses ==
    {[status |-> 0, retryAfter |-> -1, json |-> "none", payload |-> "", body |-> NoBody]}
    \cup {[status |-> st, retryAfter |-> ra, json |-> "none", payload |-> "", body |-> NoBody] :
             st \in {429, 418}, ra \in RetryAfterValues}
    \cup {[status |-> 200, retryAfter |-> -1, json |-> "ok", payload |-> pl, body |-> NoBody] :
             pl \in Payloads}
    \cup {[status |-> 200, retryAfter |-> -1, json |-> "unparsable", payload |-> "", body |-> NoBody]}
    \cup {[status |-> 400, retryAfter |-> -1, json |-> "ok", payload |-> "", body |-> b] :
             b \in ErrorBodies}
    \cup {[status |-> 502, retryAfter |-> -1, json |-> "unparsable", payload |-> "", body |-> NoBody]}

\* Math.pow(2, n)
RECURSIVE Pow2(_)
Pow2(n) == IF n = 0 THEN 1 ELSE 2 * Pow2(n - 1)

\* error.message.includes("Invalid symbol"), for the messages that can be thrown
IncludesInvalidSymbol(message) ==
    message \in {"Invalid symbol.", "Invalid symbol status.", "Invalid symbol format."}

\* InvalidSymbolBody that looks at the code only
InvalidSymbolBodyCodeOnly(b) == b.code = -1121

\* errorBody.code === -1121 || errorBody.msg === "Invalid symbol." || ...
InvalidSymbolBody(b) ==
    \/ b.code = -1121
    \/ b.msg = "Invalid symbol."
    \/ b.msg = "Invalid symbol status."

\* RateLimitWait that ignores the Retry-After header
RateLimitWaitNoHeader(r) == delay * Pow2(i)

\* retryAfter ? parseInt(retryAfter, 10) * 1000 : delay * Math.pow(2, i)
RateLimitWait(r) ==
    IF r.retryAfter # -1 THEN r.retryAfter * 1000 ELSE delay * Pow2(i)

\* the call ends
Finish(kind, value) ==
    /\ fpc' = kind
    /\ result' = value
    /\ UNCHANGED <<i, gets, sleeps>>

\* await new Promise(resolve => setTimeout(resolve, waitTime))
Sleep(waitTime) ==
    /\ fpc' = "sleep"
    /\ sleeps' = Append(sleeps, waitTime)
    /\ UNCHANGED <<i, gets, result>>

\* Catch where an exception is never retried
CatchNoRetry(message) ==
    IF IncludesInvalidSymbol(message)
    THEN Finish("returned", "null")
    ELSE Finish("thrown", message)

\* the catch block, for an error of the given message
Catch(message) ==
    IF i < retries - 1
    THEN Sleep(delay * Pow2(i))
    ELSE IF IncludesInvalidSymbol(message)
    THEN Finish("returned", "null")
    ELSE Finish("thrown", message)

\* the loop body from the answer to fetch(url) on
Respond(r) ==
    /\ fpc = "fetch"
    /\ r \in Responses
    /\ responses' = Append(responses, r)
    /\ UNCHANGED <<retries, delay, svars, pvars>>
    /\ IF r.status = 0 THEN Catch("Failed to fetch")
       ELSE IF r.status = 429 \/ r.status = 418
       THEN Sleep(RateLimitWait(r))
       ELSE IF r.status # 200
       THEN IF r.json = "unparsable" THEN Catch("Unexpected token")
            ELSE IF r.body.code = -1003 THEN Sleep(delay * Pow2(i))
            ELSE IF InvalidSymbolBody(r.body) THEN Finish("returned", "null")
            ELSE Catch(r.body.msg)
       ELSE IF r.json = "unparsable" THEN Catch("Unexpected token")
       ELSE Finish("returned", r.payload)

\* LoopFrom where the end of the loop raises instead of returning null
LoopFromRaises(n) ==
    /\ i' = n
    /\ IF n < retries
       THEN fpc' = "fetch" /\ gets' = gets + 1 /\ result' = result
       ELSE fpc' = "thrown" /\ gets' = gets /\ result' = "Max retries"

\* the loop from i++ to the next fetch(url), or to the return null after the loop
LoopFrom(n) ==
    /\ i' = n
    /\ IF n < retries
       THEN fpc' = "fetch" /\ gets' = gets + 1 /\ result' = result
       ELSE fpc' = "returned" /\ gets' = gets /\ result' = "null"

\* WakeUp where the continue of a rate limit does not count the attempt
WakeUpRateLimitNotCounted ==
    /\ fpc = "sleep"
    /\ LoopFrom(IF responses[Len(responses)].status \in {429, 418} THEN i ELSE i + 1)
    /\ UNCHANGED <<retries, delay, sleeps, responses, svars, pvars>>

\* the timeout of a sleep fires: continue, or the end of the catch block
WakeUp ==
    /\ fpc = "sleep"
    /\ LoopFrom(i + 1)
    /\ UNCHANGED <<retries, delay, sleeps, responses, svars, pvars>>

\* fetchWithRetry is called: let i = 0, the loop test, the first fetch(url)
FetchInit ==
    /\ SchedulerInit
    /\ IndicatorIdle
    /\ SignalIdle
    /\ SessionIdle
    /\ retries \in 1..DEFAULT_RETRIES
    /\ delay = DEFAULT_DELAY
    /\ i = 0
    /\ fpc = "fetch"
    /\ gets = 1
    /\ sleeps = <<>>
    /\ responses = <<>>
    /\ result = "none"

FetchNext ==
    \/ \E r \in Responses : Respond(r)
    \/ WakeUp

\* one call of fetchWithRetry
FetchSpec == FetchInit /\ [][FetchNext]_vars

\* one call of fetchWithRetry where every GET is answered and every timer fires
FetchLiveSpec == FetchSpec /\ WF_vars(FetchNext)

-----------------------------------------------------------------------------
(* Properties of the scheduler *)

IsPrefix(s, t) == Len(s) <= Len(t) /\ SubSeq(t, 1, Len(s)) = s

\* the symbols of the analyses in a collection
SymbolsOf(sig) == [k \in 1..Len(sig) |-> sig[k].symbol]

\* every member of the batch of ps has ended one way or another
AllEnded(ps) ==
    /\ ps.members # <<>>
    /\ \A j \in DOMAIN ps.members : ps.members[j] \in {"analysis", "null", "rejected"}

\* C1: every entry of the result collection was fetched by the current pass:
\* nothing an invalidated pass fetched is in the collection.
C1_ResultsAreOfCurrentPass ==
    \A k \in 1..Len(signals) : signals[k].pass = cur

\* an invalidated pass whose batch settled with an analysis after the new pass
\* has put its own analysis into the collection
C1_Witness ==
    \E p \in Passes :
        /\ p < cur
        /\ pass[p].pc = "stale"
        /\ \E j \in DOMAIN pass[p].members : pass[p].members[j] = "analysis"
        /\ Len(signals) > 0

\* C2: the loading flag is false only when the current pass has completed or
\* aborted: an invalidated pass never writes it.
C2_LoadingFalseOnlyWhenCurrentPassEnded ==
    loading = FALSE => pass[cur].pc \in {"complete", "aborted"}

\* C3: a fetch that raises for one symbol is a drop: once every member of the
\* batch of the current pass has ended, the analyses of the others are in the
\* collection, the cursor has advanced and the pass has gone on.
C3_RaiseIsADrop ==
    LET ps == pass[cur]
    IN AllEnded(ps) =>
          /\ ps.pc \in {"timer", "complete"}
          /\ ps.currentIndex = BATCH_SIZE * ps.batches
          /\ \A j \in DOMAIN ps.members :
                ps.members[j] = "analysis" =>
                   \E n \in 1..Len(signals) :
                      signals[n].symbol = ps.started[BATCH_SIZE * (ps.batches - 1) + j]

\* what an aborted pass p has done
C4_Aborted(p) ==
    /\ pass[p].uniFetches = 1
    /\ pass[p].batches = 0
    /\ pass[p].started = <<>>
    /\ pass[p].members = <<>>
    /\ pass[p].returned = {}
    /\ \A k \in 1..Len(signals) : signals[k].pass # p
    /\ p = cur => signals = <<>> /\ loading = FALSE

\* C4: a pass whose instrument-list fetch returned null, raised or was malformed
\* is aborted: it fetched the list once, started no batch and no candle or
\* ticker fetch, put nothing into the collection, and never does anything
\* again; if it is the current pass, the collection is empty and loading is
\* false.
C4_UniverseFailureAborts ==
    /\ [](\A p \in Passes : pass[p].pc = "aborted" => C4_Aborted(p))
    /\ [][\A p \in Passes : pass[p].pc = "aborted" =>
              pass'[p] = [pass[p] EXCEPT !.isMounted = pass'[p].isMounted]]_vars

C4_Witness == pass[cur].pc = "aborted" /\ cur = 1

\* what the fetches of pass p for symbol s returned
BothReturned(p, s) ==
    /\ <<s, "klines", "json">> \in pass[p].returned
    /\ <<s, "ticker", "json">> \in pass[p].returned

EitherNull(p, s) ==
    \/ <<s, "klines", "null">> \in pass[p].returned
    \/ <<s, "ticker", "null">> \in pass[p].returned

\* C5: when the current pass is complete, the collection holds exactly the
\* analyses of the universe symbols whose candle fetch and ticker fetch both
\* returned data, in universe order.
C5_CompleteHoldsExactlyTheNonNull ==
    pass[cur].pc = "complete" =>
        /\ SymbolsOf(signals) = SelectSeq(pass[cur].symbols, LAMBDA s : BothReturned(cur, s))
        /\ \A k \in 1..Len(signals) : ~EitherNull(cur, signals[k].symbol)
        /\ \A k \in 1..Len(pass[cur].symbols) :
              BothReturned(cur, pass[cur].symbols[k]) \/ EitherNull(cur, pass[cur].symbols[k])

\* a two-batch pass is complete with analyses of both batches and with a
\* candle null and a ticker null dropped
C5_Witness ==
    /\ pass[cur].pc = "complete"
    /\ pass[cur].batches = 2
    /\ Len(signals) >= 3
    /\ \E s \in 1..MaxListing : <<s, "klines", "null">> \in pass[cur].returned
    /\ \E s \in 1..MaxListing : <<s, "ticker", "null">> \in pass[cur].returned

\* C6: at every step that is no pass (re)start the collection before the step
\* is a prefix of the collection after it.
C6_GrowsWithinAPass ==
    [][cur' = cur => IsPrefix(signals, signals')]_vars

\* the second batch of a pass has added to what the first put there
C6_Witness ==
    /\ pass[cur].batches = 2
    /\ pass[cur].pc = "complete"
    /\ Len(signals) > Len(SelectSeq(signals, LAMBDA a : a.symbol <= BATCH_SIZE + 1))
    /\ Len(SelectSeq(signals, LAMBDA a : a.symbol <= BATCH_SIZE + 1)) > 0

CeilDiv(n, d) == (n + d - 1) \div d

\* the cursor, the batches and the started symbols of a pass
C7_Cursor(ps) ==
    LET n == Len(ps.symbols)
    IN /\ ps.pc = "batch" => ps.currentIndex = BATCH_SIZE * (ps.batches - 1)
       /\ ps.pc \in {"timer", "complete"} => ps.currentIndex = BATCH_SIZE * ps.batches
       /\ ps.pc = "timer" => ps.currentIndex < n
       /\ ps.pc = "complete" =>
             /\ ps.currentIndex >= n
             /\ ps.batches = IF n = 0 THEN 1 ELSE CeilDiv(n, BATCH_SIZE)
       /\ ps.started = SubSeq(ps.symbols, 1, Min(n, BATCH_SIZE * ps.batches))
       /\ \A a, b \in 1..Len(ps.started) : ps.started[a] = ps.started[b] => a = b
       /\ ps.pc = "rejected" =>
             \E s \in 1..Len(ps.symbols) : \E e \in {"klines", "ticker"} :
                <<ps.symbols[s], e, "throw">> \in ps.returned

\* C7: in a pass that is never invalidated the cursor is 10 times the number
\* of settled batches, a next batch is scheduled exactly when the cursor is
\* below the universe size, every symbol is started in exactly one batch, and
\* the pass ends: complete after ceil(n/10) batches (one for n = 0), unless
\* the instrument list failed or a fetch raised.
C7_BatchesOfTenToCompletion ==
    /\ [](C7_Cursor(pass[1]))
    /\ <>(pass[1].pc \in {"complete", "aborted", "rejected"})

\* a pass of eleven symbols complete after two batches
C7_Witness ==
    /\ pass[1].pc = "complete"
    /\ Len(pass[1].symbols) = BATCH_SIZE + 1
    /\ pass[1].batches = 2
    /\ pass[1].currentIndex = 2 * BATCH_SIZE

-----------------------------------------------------------------------------
(* Properties of fetchWithRetry *)

Last(s) == s[Len(s)]
RateLimited(r) == r.status \in {429, 418}
Success(r) == r.status = 200 /\ r.json = "ok"

\* the wait after response n (counted from 1) when it is a rate limit
BackoffAfter(n) ==
    IF responses[n].retryAfter # -1
    THEN responses[n].retryAfter * 1000
    ELSE delay * Pow2(n - 1)

\* C8: for every k < retries, when the first k responses are 429 or 418 and
\* response k+1 is a success, the call made k+1 GETs, slept k times (each the
\* Retry-After or the exponential backoff) and returned that response's payload.
C8_RateLimitedThenSuccess ==
    \A k \in 0..(retries - 1) :
        (/\ Len(responses) = k + 1
         /\ \A n \in 1..k : RateLimited(responses[n])
         /\ Success(responses[k + 1]))
        => /\ fpc = "returned"
           /\ result = responses[k + 1].payload
           /\ gets = k + 1
           /\ Len(sleeps) = k
           /\ \A n \in 1..k : sleeps[n] = BackoffAfter(n)

\* the case of the specification: 429 twice, then 200
C8_Witness ==
    /\ Len(responses) = 3
    /\ responses[1].status = 429
    /\ responses[2].status = 429
    /\ Success(responses[3])
    /\ fpc = "returned"
    /\ Len(sleeps) = 2

\* a non-success response with an invalid-symbol error body
C9_IsInvalidSymbol(r) ==
    /\ r.status \notin {200, 429, 418, 0}
    /\ r.json = "ok"
    /\ \/ r.body.code = -1121
       \/ r.body.msg \in {"Invalid symbol.", "Invalid symbol status."}

\* C9: when a non-success response carries an invalid-symbol error body, the
\* call returns null on that attempt: no sleep for it and no further GET; on
\* the first attempt exactly one GET was made.
C9_InvalidSymbolReturnsNullAtOnce ==
    (Len(responses) >= 1 /\ C9_IsInvalidSymbol(Last(responses)))
    => /\ fpc = "returned"
       /\ result = "null"
       /\ gets = Len(responses)
       /\ Len(sleeps) = Len(responses) - 1

\* an invalid-symbol body by message on the first attempt
C9_Witness ==
    /\ Len(responses) = 1
    /\ responses[1].body.msg = "Invalid symbol status."
    /\ gets = 1
    /\ fpc = "returned"

\* C10 as stated: after a 429 or 418 the call always sleeps and retries, also
\* on the last allowed attempt.
C10_RateLimitIsAlwaysRetried ==
    (Len(responses) >= 1 /\ RateLimited(Last(responses))) => fpc \in {"sleep", "fetch"}

\* C10 as amended: after a 429 or 418 the call always sleeps, also on the last
\* allowed attempt, but the attempt counts: the number of GETs never exceeds
\* retries, and after the sleep that follows a rate limit on the last attempt
\* the call returns null.
C10_RateLimitSleepsWithinBudget ==
    /\ gets <= retries
    /\ gets = Len(responses) + (IF fpc = "fetch" THEN 1 ELSE 0)
    /\ \A n \in 1..Len(responses) :
          RateLimited(responses[n]) => Len(sleeps) >= n /\ sleeps[n] = BackoffAfter(n)
    /\ (Len(responses) >= 1 /\ RateLimited(Last(responses)) /\ fpc \notin {"sleep", "fetch"})
       => /\ fpc = "returned"
          /\ result = "null"
          /\ gets = retries
          /\ Len(sleeps) = retries

\* persistent rate limiting: every attempt answered 429, the call returned
C10_Witness ==
    /\ retries = DEFAULT_RETRIES
    /\ Len(responses) = retries
    /\ \A n \in 1..Len(responses) : responses[n].status = 429
    /\ fpc = "returned"

\* a non-success response with the ban error body (code -1003)
Banned(r) ==
    /\ r.status \notin {200, 429, 418, 0}
    /\ r.json = "ok"
    /\ r.body.code = -1003

\* every one of the retries attempts was answered by a rate limit or a ban
C11_AllLimited ==
    /\ Len(responses) = retries
    /\ \A n \in 1..retries : RateLimited(responses[n]) \/ Banned(responses[n])

\* C11: when every one of the retries attempts ends in 429, 418 or a ban body
\* (-1003), the call never raises and makes no further GET: it sleeps once
\* more and then returns null.
C11_ExhaustedReturnsNull ==
    /\ [](C11_AllLimited => /\ fpc \in {"sleep", "returned"}
                            /\ gets = retries
                            /\ fpc = "returned" => result = "null")
    /\ C11_AllLimited ~> (fpc = "returned" /\ result = "null")

\* five attempts, rate limits and bans mixed, the call has returned
C11_Witness ==
    /\ retries = DEFAULT_RETRIES
    /\ C11_AllLimited
    /\ \E n \in 1..retries : Banned(responses[n])
    /\ \E n \in 1..retries : RateLimited(responses[n])
    /\ fpc = "returned"
    /\ result = "null"

\* a response that sends the attempt to the catch block: a network failure, a
\* body that does not parse, or an HTTP error that is neither a ban nor an
\* invalid-symbol body
Excepts(r) ==
    \/ r.status = 0
    \/ r.status \notin {0, 429, 418} /\ r.json = "unparsable"
    \/ /\ r.status \notin {0, 200, 429, 418}
       /\ r.json = "ok"
       /\ r.body.code # -1003
       /\ ~InvalidSymbolBody(r.body)

\* the text of the error caught for such a response
MessageOf(r) ==
    IF r.status = 0 THEN "Failed to fetch"
    ELSE IF r.json = "unparsable" THEN "Unexpected token"
    ELSE r.body.msg

\* C17: the call raises only when the last attempt (i = retries - 1) ends in
\* an exception whose text does not contain "Invalid symbol" (with that text it
\* returns null); an exception at an earlier attempt i is followed by exactly
\* one sleep of delay * 2^i and a further attempt; no sleep follows the
\* exception of the last attempt.
C17_RaisesOnlyOnLastAttempt ==
    /\ fpc = "thrown"
       => /\ Len(responses) = retries
          /\ i = retries - 1
          /\ Excepts(Last(responses))
          /\ ~IncludesInvalidSymbol(MessageOf(Last(responses)))
          /\ result = MessageOf(Last(responses))
    /\ \A n \in 1..Len(responses) :
          (Excepts(responses[n]) /\ n < retries)
          => /\ Len(sleeps) >= n
             /\ sleeps[n] = delay * Pow2(n - 1)
             /\ gets >= n + 1 \/ (fpc = "sleep" /\ Len(sleeps) = n /\ gets = n)
    /\ (Len(responses) = retries /\ Excepts(Last(responses)))
       => /\ Len(sleeps) = retries - 1
          /\ IF IncludesInvalidSymbol(MessageOf(Last(responses)))
             THEN fpc = "returned" /\ result = "null"
             ELSE fpc = "thrown"

\* a network failure, a body that does not parse, then an HTTP error on the
\* last of three attempts: two sleeps and the error raised
C17_Witness ==
    /\ retries = 3
    /\ Len(responses) = 3
    /\ responses[1].status = 0
    /\ responses[2].json = "unparsable"
    /\ responses[3].status = 400
    /\ fpc = "thrown"
    /\ sleeps = <<DEFAULT_DELAY, 2 * DEFAULT_DELAY>>

-----------------------------------------------------------------------------
(* Properties of the batch sequence *)

\* a member of the batch of ps has a request outstanding
InFlight(ps) == \E j \in DOMAIN ps.members : ps.members[j] \in {"klines", "ticker"}

\* C18: the batches of a pass run strictly one after the other: a batch is
\* started only when every member of the batch before it has settled; the
\* collection receives one append per batch, in the task in which the whole
\* batch has settled; the cursor moves only in that task, never while a
\* member of the batch is in flight.
C18_BatchesAreSequential ==
    /\ [](\A p \in Passes :
            LET ps == pass[p]
            IN /\ ps.appends <= ps.batches
               /\ ps.batches <= ps.appends + 1
               /\ ps.currentIndex = BATCH_SIZE * ps.appends
               /\ InFlight(ps) => ps.appends = ps.batches - 1
               /\ ps.pc \in {"timer", "complete"} => ps.appends = ps.batches)
    /\ [][\A p \in Passes :
            /\ pass'[p].batches # pass[p].batches
               => /\ pass'[p].batches = pass[p].batches + 1
                  /\ pass[p].appends = pass[p].batches
                  /\ Settled(pass[p])
            /\ pass'[p].appends # pass[p].appends
               => /\ pass'[p].appends = pass[p].appends + 1
                  /\ pass'[p].appends = pass'[p].batches
                  /\ Settled(pass'[p])
            /\ pass'[p].currentIndex # pass[p].currentIndex
               => /\ pass'[p].appends # pass[p].appends
                  /\ ~InFlight(pass'[p])]_vars

\* the second batch of a pass is in flight after the one append of the first
C18_Witness ==
    /\ pass[1].batches = 2
    /\ pass[1].appends = 1
    /\ InFlight(pass[1])
    /\ Len(signals) > 0

-----------------------------------------------------------------------------
(* JavaScript numbers: NaN, the infinities, and the finite values as exact
   fractions in lowest terms (rounding is not modelled) *)

RECURSIVE GCD(_, _)
GCD(a, b) == IF b = 0 THEN a ELSE GCD(b, a % b)

Magnitude(n) == IF n < 0 THEN -n ELSE n

\* the finite number n / d, d # 0
Num(n, d) ==
    LET g == GCD(Magnitude(n), Magnitude(d))
        sg == IF d < 0 THEN -1 ELSE 1
    IN [k |-> "num", n |-> sg * (n \div g), d |-> sg * (d \div g)]

Whole(n) == Num(n, 1)
NaN == [k |-> "NaN", n |-> 0, d |-> 1]
Infinity == [k |-> "Infinity", n |-> 1, d |-> 1]
NegInfinity == [k |-> "Infinity", n |-> -1, d |-> 1]
Null == [k |-> "null", n |-> 0, d |-> 1]

IsNaN(x) == x.k = "NaN"
Sign(x) == IF x.n > 0 THEN 1 ELSE IF x.n < 0 THEN -1 ELSE 0
Signed(sg) == IF sg < 0 THEN NegInfinity ELSE Infinity

\* -x
Neg(x) == [x EXCEPT !.n = -x.n]

\* x + y
Plus(x, y) ==
    IF IsNaN(x) \/ IsNaN(y) THEN NaN
    ELSE IF x.k = "Infinity" /\ y.k = "Infinity" THEN (IF x.n = y.n THEN x ELSE NaN)
    ELSE IF x.k = "Infinity" THEN x
    ELSE IF y.k = "Infinity" THEN y
    ELSE Num(x.n * y.d + y.n * x.d, x.d * y.d)

\* x - y
Minus(x, y) == Plus(x, Neg(y))

\* x * y
Times(x, y) ==
    IF IsNaN(x) \/ IsNaN(y) THEN NaN
    ELSE IF x.k = "Infinity" \/ y.k = "Infinity"
    THEN (IF Sign(x) * Sign(y) = 0 THEN NaN ELSE Signed(Sign(x) * Sign(y)))
    ELSE Num(x.n * y.n, x.d * y.d)

\* x / y (a zero divisor is +0)
Over(x, y) ==
    IF IsNaN(x) \/ IsNaN(y) THEN NaN
    ELSE IF x.k = "Infinity" /\ y.k = "Infinity" THEN NaN
    ELSE IF x.k = "Infinity" THEN Signed(x.n * (IF y.n < 0 THEN -1 ELSE 1))
    ELSE IF y.k = "Infinity" THEN Whole(0)
    ELSE IF y.n = 0 THEN (IF x.n = 0 THEN NaN ELSE Signed(x.n))
    ELSE Num(x.n * y.d, x.d * y.n)

\* Math.abs that returns its argument
AbsIdentity(x) == x

\* Math.abs(x)
Abs(x) == [x EXCEPT !.n = Magnitude(x.n)]

\* x < y, x > y, x <= y, x >= y, x === y: all false when either is NaN
Less(x, y) ==
    /\ ~IsNaN(x) /\ ~IsNaN(y)
    /\ IF x.k = "Infinity" THEN x.n < 0 /\ y # x
       ELSE IF y.k = "Infinity" THEN y.n > 0
       ELSE x.n * y.d < y.n * x.d
Greater(x, y) == Less(y, x)
StrictEq(x, y) == ~IsNaN(x) /\ ~IsNaN(y) /\ x = y
Leq(x, y) == Less(x, y) \/ StrictEq(x, y)
Geq(x, y) == Less(y, x) \/ StrictEq(x, y)

\* array.reduce((a, b) => a + b, 0)
RECURSIVE Sum(_)
Sum(a) == IF a = <<>> THEN Whole(0) ELSE Plus(Sum(SubSeq(a, 1, Len(a) - 1)), a[Len(a)])

-----------------------------------------------------------------------------
(* The indicator library *)

\* longest price series, largest price and largest period explored
MaxLen == 4
MaxPrice == 4
MaxPeriod == 3

\* calculateEMA(data, period)
calculateEMA(data, per) ==
    LET k == Over(Whole(2), Whole(per + 1))
        sma == Over(Sum(SubSeq(data, 1, per)), Whole(per))
        \* previousEma and emaArray after the iterations i = 0 .. n - 1
        loop[n \in 0..Len(data)] ==
            IF n = 0 THEN [previousEma |-> Null, emaArray |-> <<>>]
            ELSE LET st == loop[n - 1]
                     idx == n - 1
                     prev == IF idx = per - 1 THEN sma ELSE st.previousEma
                     currentEma == Plus(Times(data[idx + 1], k),
                                        Times(prev, Minus(Whole(1), k)))
                 IN IF idx < per - 1
                    THEN [st EXCEPT !.emaArray = Append(@, NaN)]
                    ELSE IF prev = Null THEN st
                    ELSE [previousEma |-> currentEma,
                          emaArray |-> Append(st.emaArray, currentEma)]
    IN loop[Len(data)].emaArray

\* RSIOf with rs = 0 when avgLoss === 0
RSIOfNoSaturation(avgGain, avgLoss) ==
    LET rs == IF StrictEq(avgLoss, Whole(0)) THEN Whole(0) ELSE Over(avgGain, avgLoss)
    IN Minus(Whole(100), Over(Whole(100), Plus(Whole(1), rs)))

\* 100 - 100 / (1 + rs) with rs = avgLoss === 0 ? +Infinity : avgGain / avgLoss
RSIOf(avgGain, avgLoss) ==
    LET rs == IF StrictEq(avgLoss, Whole(0)) THEN Infinity ELSE Over(avgGain, avgLoss)
    IN Minus(Whole(100), Over(Whole(100), Plus(Whole(1), rs)))

\* calculateRSI below its length guard: the series has more than period closes
WilderRSI(cl, per) ==
         LET diff(idx) == Minus(cl[idx + 1], cl[idx])
             \* gains and losses after the iterations i = 1 .. n
             seed[n \in 0..per] ==
                 IF n = 0 THEN [gains |-> Whole(0), losses |-> Whole(0)]
                 ELSE IF Greater(diff(n), Whole(0))
                 THEN [seed[n - 1] EXCEPT !.gains = Plus(@, diff(n))]
                 ELSE [seed[n - 1] EXCEPT !.losses = Minus(@, diff(n))]
             \* avgGain and avgLoss when rsi[n] is written, n = period .. length - 1
             avg[n \in per..(Len(cl) - 1)] ==
                 IF n = per
                 THEN [avgGain |-> Over(seed[per].gains, Whole(per)),
                       avgLoss |-> Over(seed[per].losses, Whole(per))]
                 ELSE LET gain == IF Greater(diff(n), Whole(0)) THEN diff(n) ELSE Whole(0)
                          loss == IF Less(diff(n), Whole(0)) THEN Neg(diff(n)) ELSE Whole(0)
                      IN [avgGain |-> Over(Plus(Times(avg[n - 1].avgGain, Whole(per - 1)), gain),
                                           Whole(per)),
                          avgLoss |-> Over(Plus(Times(avg[n - 1].avgLoss, Whole(per - 1)), loss),
                                           Whole(per))]
         IN [j \in 1..Len(cl) |->
                IF j - 1 < per THEN NaN ELSE RSIOf(avg[j - 1].avgGain, avg[j - 1].avgLoss)]

\* calculateRSI that pads a short series with NaN instead of returning []
calculateRSIPadsShort(cl, per) ==
    IF Len(cl) <= per THEN [j \in 1..Len(cl) |-> NaN] ELSE WilderRSI(cl, per)

\* calculateRSI(closes, period)
calculateRSI(cl, per) ==
    IF Len(cl) <= per THEN <<>> ELSE WilderRSI(cl, per)

\* the price series of n closes
Series(n) == {[j \in 1..n |-> Whole(f[j])] : f \in [1..n -> 1..MaxPrice]}

\* a price series and a period are chosen
IndicatorInit ==
    /\ SchedulerInit
    /\ FetchIdle
    /\ SignalIdle
    /\ SessionIdle
    /\ closes \in UNION {Series(n) : n \in 0..MaxLen}
    /\ period \in 1..MaxPeriod
    /\ ema = NotCalled
    /\ rsi = NotCalled

\* ema = calculateEMA(closes, period)
CallEMA ==
    /\ ~ema.called
    /\ ema' = Returned(calculateEMA(closes, period))
    /\ UNCHANGED <<closes, period, rsi, svars, fvars, cvars, tvars>>

\* rsi = calculateRSI(closes, period)
CallRSI ==
    /\ ~rsi.called
    /\ rsi' = Returned(calculateRSI(closes, period))
    /\ UNCHANGED <<closes, period, ema, svars, fvars, cvars, tvars>>

IndicatorNext == CallEMA \/ CallRSI

\* the indicator functions applied to one price series
IndicatorSpec == IndicatorInit /\ [][IndicatorNext]_vars

-----------------------------------------------------------------------------
(* The momentum snapshot and the signal classifier *)

\* longest RSI series explored
MaxRsiLen == 16

\* the lookback getSignal passes to getRecentRSIDiff
LOOKBACK == 14

\* getRecentRSIDiff(rsi, lookback)
getRecentRSIDiff(r, lb) ==
    IF Len(r) < lb THEN Null
    ELSE LET recentRSI == SubSeq(r, Len(r) - lb + 1, Len(r))
             \* recentHigh and recentLow after the first n values of the window
             scan[n \in 0..lb] ==
                 IF n = 0 THEN [recentHigh |-> NegInfinity, recentLow |-> Infinity]
                 ELSE LET value == recentRSI[n]
                          st == scan[n - 1]
                      IN IF IsNaN(value) THEN st
                         ELSE [recentHigh |-> IF Greater(value, st.recentHigh)
                                              THEN value ELSE st.recentHigh,
                               recentLow |-> IF Less(value, st.recentLow)
                                             THEN value ELSE st.recentLow]
             recentHigh == scan[lb].recentHigh
             recentLow == scan[lb].recentLow
             startRSI == recentRSI[1]
             endRSI == recentRSI[lb]
         IN [recentHigh |-> recentHigh,
             recentLow |-> recentLow,
             pumpStrength |-> Minus(recentHigh, recentLow),
             dumpStrength |-> Abs(Minus(recentLow, recentHigh)),
             direction |-> IF Greater(endRSI, startRSI) THEN "pump"
                           ELSE IF Less(endRSI, startRSI) THEN "dump"
                           ELSE "neutral",
             strength |-> Abs(Minus(endRSI, startRSI))]

\* inRange(val, min, max) and isAbove30(val) of getSignal
inRange(val, min, max) == Geq(val, Whole(min)) /\ Leq(val, Whole(max))
isAbove30(val) == Geq(val, Whole(30))

\* getSignal that tests the balance zone before the max zone, from 21 up
getSignalBalanceFirst(r) ==
    LET pd == IF r.called THEN getRecentRSIDiff(r.value, LOOKBACK) ELSE Null
    IN IF pd = Null THEN "NO DATA"
       ELSE IF Geq(pd.pumpStrength, Whole(21)) /\ pd.direction = "pump"
       THEN "BALANCE ZONE PUMP"
       ELSE IF Geq(pd.dumpStrength, Whole(21)) /\ pd.direction = "dump"
       THEN "BALANCE ZONE DUMP"
       ELSE IF pd.direction = "pump" /\ isAbove30(pd.pumpStrength) THEN "MAX ZONE PUMP"
       ELSE IF pd.direction = "dump" /\ isAbove30(pd.dumpStrength) THEN "MAX ZONE DUMP"
       ELSE IF inRange(pd.pumpStrength, 1, 10) /\ pd.direction = "pump"
       THEN "LOWEST ZONE PUMP"
       ELSE IF inRange(pd.dumpStrength, 1, 10) /\ pd.direction = "dump"
       THEN "LOWEST ZONE DUMP"
       ELSE "NO STRONG SIGNAL"

\* getSignal(s), r being s.rsi14
getSignal(r) ==
    LET pd == IF r.called THEN getRecentRSIDiff(r.value, LOOKBACK) ELSE Null
    IN IF pd = Null THEN "NO DATA"
       ELSE IF pd.direction = "pump" /\ isAbove30(pd.pumpStrength) THEN "MAX ZONE PUMP"
       ELSE IF pd.direction = "dump" /\ isAbove30(pd.dumpStrength) THEN "MAX ZONE DUMP"
       ELSE IF inRange(pd.pumpStrength, 21, 26) /\ pd.direction = "pump"
       THEN "BALANCE ZONE PUMP"
       ELSE IF inRange(pd.dumpStrength, 21, 26) /\ pd.direction = "dump"
       THEN "BALANCE ZONE DUMP"
       ELSE IF inRange(pd.pumpStrength, 1, 10) /\ pd.direction = "pump"
       THEN "LOWEST ZONE PUMP"
       ELSE IF inRange(pd.dumpStrength, 1, 10) /\ pd.direction = "dump"
       THEN "LOWEST ZONE DUMP"
       ELSE "NO STRONG SIGNAL"

\* the RSI values explored: NaN and levels whose differences fall in, between
\* and outside the zones
RsiValues == {NaN} \cup {Whole(v) : v \in {10, 11, 20, 31, 35, 40, 45}}

\* the series of n values that starts with a, ends with b and holds f between
RsiSeries(n, a, f, b) ==
    [j \in 1..n |-> IF j = n THEN b ELSE IF j = 1 THEN a ELSE f]

\* s.rsi14 is undefined or an RSI series
SignalInit ==
    /\ SchedulerInit
    /\ FetchIdle
    /\ IndicatorIdle
    /\ SessionIdle
    /\ rsi14 \in {NotCalled} \cup
                 {Returned(RsiSeries(n, a, f, b)) :
                      n \in 0..MaxRsiLen, a \in RsiValues, f \in RsiValues, b \in RsiValues}
    /\ lookback = LOOKBACK
    /\ pumpDump = NotCalled
    /\ signal = NotCalled

\* pumpDump = getRecentRSIDiff(s.rsi14, lookback), for an rsi14 that is an array
CallRecentRSIDiff ==
    /\ rsi14.called
    /\ ~pumpDump.called
    /\ pumpDump' = Returned(getRecentRSIDiff(rsi14.value, lookback))
    /\ UNCHANGED <<rsi14, lookback, signal, svars, fvars, ivars, tvars>>

\* signal = getSignal(s)
CallSignal ==
    /\ ~signal.called
    /\ signal' = Returned(getSignal(rsi14))
    /\ UNCHANGED <<rsi14, lookback, pumpDump, svars, fvars, ivars, tvars>>

SignalNext == CallRecentRSIDiff \/ CallSignal

\* the snapshot and the classifier applied to one RSI series
SignalSpec == SignalInit /\ [][SignalNext]_vars

-----------------------------------------------------------------------------
(* The session windows *)

\* last day after the epoch explored
MaxDay == 2

\* Date.UTC(year, month, date, hour, minute) for the calendar day number day
\* (the days since the epoch stand for year, month and date): Date.UTC carries
\* an hour below 0 or a date past the month's end into the neighbouring day
DateUTC(day, hour, minute) == ((day * 24 + hour) * 60 + minute) * 60 * 1000

\* getUTCDate that reads the calendar day off the UTC+8 clock
getPHDate(n) == (n + 8 * 60 * 60 * 1000) \div (24 * 60 * 60 * 1000)

\* now.getUTCFullYear(), now.getUTCMonth(), now.getUTCDate(): the calendar day
\* of n in UTC
getUTCDate(n) == n \div (24 * 60 * 60 * 1000)

\* getUTCMillisFor1d without the conversion from UTC+8
getUTCMillisFor1dNoShift(d, hPH, min) == DateUTC(d, hPH, min)

\* getUTCMillisFor1d that drops the minutes
getUTCMillisFor1dNoMinutes(d, hPH, min) == DateUTC(d, hPH - 8, 0)

\* getUTCMillisFor1d(y, m, d, hPH, min)
getUTCMillisFor1d(d, hPH, min) == DateUTC(d, hPH - 8, min)

\* MILLISECONDS with the two bucket lengths exchanged
MILLISECONDSSwapped(t) == IF t = "15m" THEN 4 * 60 * 60 * 1000 ELSE 15 * 60 * 1000

\* MILLISECONDS[timeframeToUse]
MILLISECONDS(t) == IF t = "15m" THEN 15 * 60 * 1000 ELSE 4 * 60 * 60 * 1000

\* getSessions(tf) called at the time n; branch records the path taken
getSessions(t, n) ==
    IF t = "1d"
    THEN LET date == getUTCDate(n)
             today8AM_UTC == getUTCMillisFor1d(date, 8, 0)
             tomorrow745AM_UTC == getUTCMillisFor1d(date + 1, 7, 45)
             yesterday8AM_UTC == getUTCMillisFor1d(date - 1, 8, 0)
             today745AM_UTC == getUTCMillisFor1d(date, 7, 45)
         IN [branch |-> IF n >= today8AM_UTC THEN "from8AM" ELSE "before8AM",
             sessionStart |-> IF n >= today8AM_UTC THEN today8AM_UTC ELSE yesterday8AM_UTC,
             sessionEnd |-> IF n >= today8AM_UTC THEN tomorrow745AM_UTC ELSE today745AM_UTC,
             prevSessionStart |-> getUTCMillisFor1d(date - 1, 8, 0),
             prevSessionEnd |-> getUTCMillisFor1d(date, 7, 45)]
    ELSE LET tfMillis == MILLISECONDS(t)
             start == (n \div tfMillis) * tfMillis
         IN [branch |-> "bucket",
             sessionStart |-> start,
             sessionEnd |-> start + tfMillis,
             prevSessionStart |-> start - tfMillis,
             prevSessionEnd |-> start]

\* most candles in a klines response
MaxCandles == 3

\* the length of one candle of the interval t (ms)
KlineLength(t) == IF t = "1d" THEN 24 * 60 * 60 * 1000 ELSE MILLISECONDS(t)

\* the klines response at the time n: the n latest candles of the interval t
\* in ascending order, the last one being the candle that is still open;
\* timestamp is the open time c[0]
Klines(t, n, count) ==
    [j \in 1..count |->
        [timestamp |-> (n \div KlineLength(t)) * KlineLength(t)
                       - (count - j) * KlineLength(t)]]

\* the times explored: on each day, around the boundaries of the buckets and
\* of the daily session
Instants ==
    {DateUTC(day, hour, minute) + ms :
        day \in 1..MaxDay, hour \in {0, 3, 4, 7, 8, 15, 16, 23},
        minute \in {0, 14, 15, 44, 45, 59}, ms \in {0, 1, 59999}}

\* a timeframe and a time of the call are chosen
SessionInit ==
    /\ SchedulerInit
    /\ FetchIdle
    /\ IndicatorIdle
    /\ SignalIdle
    /\ now \in Instants
    /\ tfParam \in Timeframes
    /\ sessions = NotCalled
    /\ candles \in {Klines(tfParam, now, n) : n \in 0..MaxCandles}
    /\ candlesPrev = NotCalled

\* sessions = getSessions(tf)
CallSessions ==
    /\ ~sessions.called
    /\ sessions' = Returned(getSessions(tfParam, now))
    /\ UNCHANGED <<now, tfParam, candles, candlesPrev, svars, fvars, ivars, cvars>>

\* fetchAndAnalyze: the previous session of getSessions(interval) and the
\* candles whose timestamp lies in it
FilterPrevious ==
    /\ ~candlesPrev.called
    /\ LET w == getSessions(tfParam, now)
       IN candlesPrev' =
             Returned(SelectSeq(candles,
                                LAMBDA c : /\ c.timestamp >= w.prevSessionStart
                                           /\ c.timestamp <= w.prevSessionEnd))
    /\ UNCHANGED <<now, tfParam, sessions, candles, svars, fvars, ivars, cvars>>

SessionNext == CallSessions \/ FilterPrevious

\* getSessions called once, and the previous-session filter applied once
SessionSpec == SessionInit /\ [][SessionNext]_vars
-----------------------------------------------------------------------------
(* Properties of the indicator library *)

\* C14 as stated: calculateEMA and calculateRSI return a series of the length
\* of the input, also for an input no longer than the period.
C14_SameLengthAsInput ==
    /\ ema.called => Len(ema.value) = Len(closes)
    /\ rsi.called => Len(rsi.value) = Len(closes)

\* C14 as amended: calculateEMA returns a series of the length of the input,
\* also for an input shorter than the period (then all NaN); calculateRSI
\* returns a series of the length of the input when the input is longer than
\* the period, with NaN at the first period positions, and the empty series
\* when the input is no longer than the period.
C14_SameLengthUnlessShortRSI ==
    /\ ema.called
       => /\ Len(ema.value) = Len(closes)
          /\ \A j \in 1..Len(closes) : j < period => IsNaN(ema.value[j])
    /\ rsi.called
       => IF Len(closes) > period
          THEN /\ Len(rsi.value) = Len(closes)
               /\ \A j \in 1..period : IsNaN(rsi.value[j])
          ELSE rsi.value = <<>>

\* two closes and period 3: calculateEMA returned two NaN, calculateRSI []
C14_Witness ==
    /\ Len(closes) = 2
    /\ period = 3
    /\ ema.called
    /\ rsi.called
    /\ ema.value = <<NaN, NaN>>
    /\ rsi.value = <<>>

StrictlyIncreasing(a) == \A j \in 1..(Len(a) - 1) : Less(a[j], a[j + 1])
StrictlyDecreasing(a) == \A j \in 1..(Len(a) - 1) : Greater(a[j], a[j + 1])

\* C15: for every period and every series longer than the period,
\* calculateRSI is 100 at every position from period on when the series is
\* strictly increasing and 0 at every such position when it is strictly
\* decreasing.
C15_MonotoneSeriesSaturate ==
    (rsi.called /\ Len(closes) > period)
    => /\ StrictlyIncreasing(closes)
          => \A j \in (period + 1)..Len(closes) : rsi.value[j] = Whole(100)
       /\ StrictlyDecreasing(closes)
          => \A j \in (period + 1)..Len(closes) : rsi.value[j] = Whole(0)

\* four rising closes, period 1: 100 at the three defined positions
C15_Witness ==
    /\ closes = <<Whole(1), Whole(2), Whole(3), Whole(4)>>
    /\ period = 1
    /\ rsi.called
    /\ rsi.value = <<NaN, Whole(100), Whole(100), Whole(100)>>

\* C19: for a series of at least period values, the EMA at position period - 1
\* is the simple average of the first period values, and at every later
\* position i it is close[i] * k + ema[i - 1] * (1 - k) with k = 2 / (period + 1).
C19_SeedIsSMA ==
    (ema.called /\ Len(closes) >= period)
    => LET k == Over(Whole(2), Whole(period + 1))
       IN /\ ema.value[period] = Over(Sum(SubSeq(closes, 1, period)), Whole(period))
          /\ \A j \in (period + 1)..Len(closes) :
                ema.value[j] = Plus(Times(closes[j], k),
                                    Times(ema.value[j - 1], Minus(Whole(1), k)))

-----------------------------------------------------------------------------
(* Properties of the snapshot and the classifier *)

\* the rules of the classifier in their order, for the snapshot pd
C12_Rules(pd) ==
    << <<pd.direction = "pump" /\ Geq(pd.pumpStrength, Whole(30)), "MAX ZONE PUMP">>,
       <<pd.direction = "dump" /\ Geq(pd.dumpStrength, Whole(30)), "MAX ZONE DUMP">>,
       <<pd.direction = "pump" /\ Geq(pd.pumpStrength, Whole(21))
                               /\ Leq(pd.pumpStrength, Whole(26)), "BALANCE ZONE PUMP">>,
       <<pd.direction = "dump" /\ Geq(pd.dumpStrength, Whole(21))
                               /\ Leq(pd.dumpStrength, Whole(26)), "BALANCE ZONE DUMP">>,
       <<pd.direction = "pump" /\ Geq(pd.pumpStrength, Whole(1))
                               /\ Leq(pd.pumpStrength, Whole(10)), "LOWEST ZONE PUMP">>,
       <<pd.direction = "dump" /\ Geq(pd.dumpStrength, Whole(1))
                               /\ Leq(pd.dumpStrength, Whole(10)), "LOWEST ZONE DUMP">> >>

\* the label of the first rule that matches, or NO STRONG SIGNAL
C12_FirstMatch(pd) ==
    LET rules == C12_Rules(pd)
        hits == {n \in DOMAIN rules : rules[n][1]}
    IN IF hits = {} THEN "NO STRONG SIGNAL"
       ELSE rules[CHOOSE n \in hits : \A m \in hits : n <= m][2]

\* C12: getSignal returns NO DATA exactly when the RSI series is undefined or
\* shorter than 14; otherwise it returns the label of the first matching rule
\* in the order max pump, max dump, balance pump, balance dump, lowest pump,
\* lowest dump, else NO STRONG SIGNAL; direction pump with pumpStrength 35 is
\* MAX ZONE PUMP.
C12_FirstMatchingRule ==
    signal.called
    => LET absent == ~rsi14.called \/ Len(rsi14.value) < LOOKBACK
           pd == getRecentRSIDiff(rsi14.value, LOOKBACK)
       IN /\ signal.value = "NO DATA" <=> absent
          /\ ~absent => signal.value = C12_FirstMatch(pd)
          /\ (~absent /\ pd.direction = "pump" /\ pd.pumpStrength = Whole(35))
             => signal.value = "MAX ZONE PUMP"

\* a window that rises from 10 to 45: pumpStrength 35, MAX ZONE PUMP
C12_Witness ==
    /\ rsi14 = Returned(RsiSeries(LOOKBACK, Whole(10), Whole(20), Whole(45)))
    /\ signal = Returned("MAX ZONE PUMP")

\* the last lookback values of the series
C13_Window == SubSeq(rsi14.value, Len(rsi14.value) - lookback + 1, Len(rsi14.value))

\* C13 as stated: for every RSI series of length >= lookback, also when the
\* window holds only NaN, the snapshot has pumpStrength = dumpStrength.
C13_PumpEqualsDump ==
    (pumpDump.called /\ Len(rsi14.value) >= lookback)
    => pumpDump.value.pumpStrength = pumpDump.value.dumpStrength

\* C13 as amended: for every RSI series of length >= lookback whose window
\* holds at least one value that is not NaN, pumpStrength = dumpStrength >= 0;
\* when the window holds only NaN, pumpStrength is -Infinity and dumpStrength
\* is +Infinity.
C13_PumpEqualsDumpUnlessAllNaN ==
    (pumpDump.called /\ Len(rsi14.value) >= lookback)
    => IF \E j \in 1..lookback : ~IsNaN(C13_Window[j])
       THEN /\ pumpDump.value.pumpStrength = pumpDump.value.dumpStrength
            /\ Geq(pumpDump.value.pumpStrength, Whole(0))
       ELSE /\ pumpDump.value.pumpStrength = NegInfinity
            /\ pumpDump.value.dumpStrength = Infinity

\* a window of NaN and values between 10 and 45: both strengths are 35
C13_Witness ==
    /\ rsi14 = Returned(RsiSeries(MaxRsiLen, NaN, Whole(10), Whole(45)))
    /\ pumpDump.called
    /\ pumpDump.value.pumpStrength = Whole(35)
    /\ pumpDump.value.dumpStrength = Whole(35)

-----------------------------------------------------------------------------
(* Properties of the session windows *)

\* the time of day of n in UTC and in the UTC+8 clock (ms after midnight)
TimeOfDayUTC(n) == n % (24 * 60 * 60 * 1000)
TimeOfDayPH(n) == (n + 8 * 60 * 60 * 1000) % (24 * 60 * 60 * 1000)

\* C16: getSessions('1d') called exactly at 08:00 in the UTC+8 clock
\* (00:00 UTC) returns sessionStart = now.
C16_StartIsNowAtBoundary ==
    (sessions.called /\ tfParam = "1d" /\ TimeOfDayUTC(now) = 0)
    => sessions.value.sessionStart = now

\* the call at 00:00 UTC of day 1
C16_Witness ==
    /\ now = DateUTC(1, 0, 0)
    /\ tfParam = "1d"
    /\ sessions.called
    /\ sessions.value.sessionStart = now
    /\ sessions.value.branch = "from8AM"

\* C20 as stated: for 1d, when now is before the day's 08:00 boundary of the
\* UTC+8 clock, getSessions takes the before-8AM branch and the current
\* session is [yesterday 08:00, today 07:45], the same as the previous session.
C20_BeforeBoundaryOverlaps ==
    (sessions.called /\ tfParam = "1d" /\ TimeOfDayPH(now) < 8 * 60 * 60 * 1000)
    => /\ sessions.value.branch = "before8AM"
       /\ sessions.value.sessionStart = sessions.value.prevSessionStart
       /\ sessions.value.sessionEnd = sessions.value.prevSessionEnd

\* C20 as amended: for 1d and every now, getSessions takes the first branch:
\* the current session is [00:00 UTC, 23:45 UTC] of now's UTC day (08:00 to
\* 07:45 of the next day in the UTC+8 clock), the previous session is the same
\* window of the day before, and the two never overlap.
C20_DailyWindowsNeverOverlap ==
    (sessions.called /\ tfParam = "1d")
    => /\ sessions.value.branch = "from8AM"
       /\ sessions.value.sessionStart = now - TimeOfDayUTC(now)
       /\ sessions.value.sessionEnd = now - TimeOfDayUTC(now) + DateUTC(0, 23, 45)
       /\ sessions.value.prevSessionStart = now - TimeOfDayUTC(now) - DateUTC(1, 0, 0)
       /\ sessions.value.prevSessionEnd = now - TimeOfDayUTC(now) - DateUTC(0, 0, 15)
       /\ sessions.value.prevSessionEnd < sessions.value.sessionStart

\* a call at 01:00 in the UTC+8 clock (17:00 UTC of day 1), before that
\* clock's 08:00: the session started at 00:00 UTC of day 1
C20_Witness ==
    /\ now = DateUTC(1, 16, 0) + 1
    /\ tfParam = "1d"
    /\ sessions.called
    /\ sessions.value.branch = "from8AM"
    /\ sessions.value.sessionStart = DateUTC(1, 0, 0)
    /\ sessions.value.prevSessionEnd = DateUTC(0, 23, 45)

\* the bucket length of the timeframes 15m and 4h (ms)
C21_Length(t) == IF t = "15m" THEN DateUTC(0, 0, 15) ELSE DateUTC(0, 4, 0)

\* C21: for 15m and 4h with bucket length L, sessionStart is the multiple of L
\* at or below now (floor(now / L) * L), so sessionStart <= now < sessionEnd,
\* sessionEnd = sessionStart + L, and the previous session is the bucket just
\* before: prevSessionStart = sessionStart - L, prevSessionEnd = sessionStart.
C21_BucketsAreAligned ==
    (sessions.called /\ tfParam \in {"15m", "4h"})
    => LET L == C21_Length(tfParam)
           w == sessions.value
       IN /\ w.sessionStart % L = 0
          /\ w.sessionStart <= now
          /\ now < w.sessionEnd
          /\ w.sessionEnd = w.sessionStart + L
          /\ w.prevSessionStart = w.sessionStart - L
          /\ w.prevSessionEnd = w.sessionStart

\* a call just after 07:45 UTC of day 1 on 4h: the bucket that began at 04:00
C21_Witness ==
    /\ now = DateUTC(1, 7, 45) + 1
    /\ tfParam = "4h"
    /\ sessions.called
    /\ sessions.value.sessionStart = DateUTC(1, 4, 0)
    /\ sessions.value.prevSessionStart = DateUTC(1, 0, 0)

\* C22 as stated: for 1d and every now, the current session contains now.
C22_DailySessionContainsNow ==
    (sessions.called /\ tfParam = "1d")
    => /\ sessions.value.sessionStart <= now
       /\ now <= sessions.value.sessionEnd

\* C22 as amended: for 1d and every now, sessionStart <= now < sessionStart +
\* 24 h, and now <= sessionEnd exactly when now is not in the last quarter of
\* an hour of its UTC day: after 23:45 UTC (07:45 in the UTC+8 clock) and
\* before the next 00:00 UTC, now is past the end of the session returned.
C22_DailySessionContainsNowUntil2345 ==
    (sessions.called /\ tfParam = "1d")
    => /\ sessions.value.sessionStart <= now
       /\ now < sessions.value.sessionStart + DateUTC(1, 0, 0)
       /\ now <= sessions.value.sessionEnd <=> TimeOfDayUTC(now) <= DateUTC(0, 23, 45)

\* a call one millisecond after 23:45 UTC of day 1: the session has ended
C22_Witness ==
    /\ now = DateUTC(1, 23, 45) + 1
    /\ tfParam = "1d"
    /\ sessions.called
    /\ sessions.value.sessionStart = DateUTC(1, 0, 0)
    /\ sessions.value.sessionEnd = DateUTC(1, 23, 45)

\* C24: for every timeframe, the previous-session candle set holds only
\* candles whose open time lies before the current session: no candle with
\* timestamp >= sessionStart is in it.
C24_PreviousExcludesCurrentCandle ==
    candlesPrev.called
    => \A j \in 1..Len(candlesPrev.value) :
          candlesPrev.value[j].timestamp < getSessions(tfParam, now).sessionStart

-----------------------------------------------------------------------------
(* Properties of the passes across a timeframe change *)

\* the members of the batch of ps that have a request outstanding
InFlightCount(ps) ==
    Cardinality({j \in DOMAIN ps.members : ps.members[j] \in {"klines", "ticker"}})

RECURSIVE SumOver(_, _)
SumOver(f, S) ==
    IF S = {} THEN 0
    ELSE LET x == CHOOSE x \in S : TRUE IN f[x] + SumOver(f, S \ {x})

\* C23: at any time at most BATCH_SIZE fetchAndAnalyze operations are in
\* flight, all passes counted, and a pass that has been invalidated starts no
\* further candle or ticker fetch.
C23_AtMostOneBatchInFlight ==
    /\ SumOver([p \in Passes |-> InFlightCount(pass[p])], Passes) <= BATCH_SIZE
    /\ \A p \in Passes : ~pass[p].lateFetch

====
